---- MODULE Spec2Model ----
(***************************************************************************)
(* A model of python-firetv's FireTV class (src/firetv/__init__.py): one   *)
(* Device object holding an optional ADB session, the shell commands its   *)
(* operations issue, and the device answering them.                        *)
(*                                                                         *)
(* Further parts: the window-focus text read by WINDOW_REGEX token by     *)
(* token, the process listing and its chunks, checksum errors of the      *)
(* transport, and the device registry of src/firetv/__main__.py.           *)
(*                                                                         *)
(* Texts are sequences of tokens.  A power dump is a sequence of words and *)
(* line ends; the window-focus dump is a sequence of lines; the reply to   *)
(* an intent command is a sequence of words and line ends, where CRLF      *)
(* stands for the two characters "\r\n" and LF for a bare "\n".            *)
(***************************************************************************)
EXTENDS Integers, Sequences, FiniteSets, TLC

VARIABLES host, adb, connects, dev, last, prev, corrupted, registry

vars == <<host, adb, connects, dev, last, prev, corrupted, registry>>

\* ------------------------------------------------------------ bounds
MaxSessions == 2
MaxFocusLines == 2
MaxReplyLen == 5

\* --------------------------------------------------- program constants
HOME == 3
VOLUME_UP == 24
VOLUME_DOWN == 25
POWER == 26
PLAY_PAUSE == 85
NEXT == 87
PREVIOUS == 88
PLAY == 126
PAUSE == 127
UP == 19
DOWN == 20
LEFT == 21
RIGHT == 22
ENTER == 66
BACK == 4
MENU == 1

STATE_ON == "on"
STATE_IDLE == "idle"
STATE_OFF == "off"
STATE_PLAYING == "play"
STATE_PAUSED == "pause"
STATE_STANDBY == "standby"
STATE_DISCONNECTED == "disconnected"

PACKAGE_LAUNCHER == "com.amazon.tv.launcher"
INTENT_LAUNCH == "android.intent.category.LAUNCHER"
INTENT_HOME == "android.intent.category.HOME"

\* self._adb = None
None == 0

\* ------------------------------------------------------------- texts
CRLF == "\r\n"
LF == "\n"
Whitespace == {CRLF, LF, " "}

\* str.strip(): leading and trailing whitespace removed
RECURSIVE LStrip(_)
LStrip(t) == IF t # <<>> /\ Head(t) \in Whitespace THEN LStrip(Tail(t)) ELSE t

RECURSIVE RStrip(_)
RStrip(t) ==
    IF t # <<>> /\ t[Len(t)] \in Whitespace
    THEN RStrip(SubSeq(t, 1, Len(t) - 1))
    ELSE t

Strip(t) == RStrip(LStrip(t))

\* str.find(search) > -1
Find(t, search) == \E i \in 1..Len(t) : t[i] = search

\* str.split("\r\n"): the pieces between the separators, empty ones included
RECURSIVE SplitCRLF(_)
SplitCRLF(t) ==
    IF \A i \in 1..Len(t) : t[i] # CRLF
    THEN <<t>>
    ELSE LET k == CHOOSE i \in 1..Len(t) :
                     t[i] = CRLF /\ \A j \in 1..(i - 1) : t[j] # CRLF
         IN  <<SubSeq(t, 1, k - 1)>> \o SplitCRLF(SubSeq(t, k + 1, Len(t)))

\* "\n".join(lines)
RECURSIVE JoinLF(_)
JoinLF(lines) ==
    IF lines = <<>> THEN <<>>
    ELSE IF Len(lines) = 1 THEN lines[1]
    ELSE lines[1] \o <<LF>> \o JoinLF(Tail(lines))

\* all texts over alphabet A of length at most n
TextsUpTo(A, n) == UNION {[1..k -> A] : k \in 0..n}

\* ------------------------------------------------------ shell commands
\* 'input keyevent {0}'
KeyCmd(code) == [kind |-> "input keyevent", a |-> "", b |-> "", n |-> code]
\* 'dumpsys {0} | grep "{1}"' and 'dumpsys {0}' (b = "")
DumpCmd(service, grep) == [kind |-> "dumpsys", a |-> service, b |-> grep, n |-> 0]
\* 'monkey -p {} -c {} {}; echo $?'
IntentCmd(pkg, intent, count) == [kind |-> "monkey", a |-> pkg, b |-> intent, n |-> count]

\* ---------------------------------------------------------- the device
\* One line of the window-focus dump: a Window{<id> <user> <package>[/<activity>]}
\* line or another line (mCurrentFocus=null); cr: the line ends in "\r\n".
NullLine == [win |-> FALSE, package |-> "", hasActivity |-> FALSE, activity |-> "", cr |-> TRUE]
WindowLine(pkg, act) == [win |-> TRUE, package |-> pkg, hasActivity |-> act # "", activity |-> act, cr |-> TRUE]

OtherPackage == "com.netflix.ninja"
OtherActivity == "com.netflix.ninja.MainActivity"
Apps == {PACKAGE_LAUNCHER, OtherPackage}

FocusLines == {NullLine, WindowLine(PACKAGE_LAUNCHER, ""), WindowLine(OtherPackage, OtherActivity)}
FocusDumps == TextsUpTo(FocusLines, MaxFocusLines)

DisplayDumps == {<<>>, <<"state=ON", CRLF>>, <<"state=OFF", CRLF>>}
WakeDumps == {<<"Awake", CRLF>>, <<"Asleep", CRLF>>}
LockDumps == {<<"size=0", CRLF>>, <<"size=1", CRLF>>}

Devices == [display : DisplayDumps, wake : WakeDumps, locks : LockDumps, focus : FocusDumps]

\* the device's answer to a dumpsys command run through self._adb.Shell
Shell(d, cmd) ==
    CASE cmd.a = "power" /\ cmd.b = "Display Power" -> d.display
      [] cmd.a = "power" /\ cmd.b = "mWakefulness" -> d.wake
      [] cmd.a = "power" /\ cmd.b = "Locks" -> d.locks
      [] cmd.a = "window windows" /\ cmd.b = "mCurrentFocus" -> d.focus
      [] OTHER -> <<>>

\* the device's reaction to a key event: the power key toggles the display
PressKey(d, cmd) ==
    IF cmd.kind = "input keyevent" /\ cmd.n = POWER
    THEN [d EXCEPT !.display = IF Find(d.display, "state=ON")
                               THEN <<"state=OFF", CRLF>>
                               ELSE <<"state=ON", CRLF>>]
    ELSE d

RECURSIVE Deliver(_, _)
Deliver(d, cmds) == IF cmds = <<>> THEN d ELSE Deliver(PressKey(d, Head(cmds)), Tail(cmds))

\* ------------------------------------------------------- return values
\* What an operation hands back: a value (or None), the shell commands it
\* issued in order, and the exception it raised ("" when it returned).
NoRet == [none |-> TRUE, str |-> "", package |-> "", hasActivity |-> FALSE, activity |-> "", retcode |-> <<>>, output |-> <<>>, procs |-> <<>>]
StrRet(s) == [NoRet EXCEPT !.none = FALSE, !.str = s]
AppRet(line) == [NoRet EXCEPT !.none = FALSE, !.package = line.package, !.hasActivity = line.hasActivity, !.activity = line.activity]
IntentRet(retcode, output) == [NoRet EXCEPT !.none = FALSE, !.retcode = retcode, !.output = output]
ListRet(procs) == [NoRet EXCEPT !.none = FALSE, !.procs = procs]

Return(ret, sent) == [ret |-> ret, sent |-> sent, exc |-> ""]
Raise(exc, sent) == [ret |-> NoRet, sent |-> sent, exc |-> exc]

\* ------------------------------------------------------- FireTV methods
\* FireTV._dump: None without a session, else the shell's answer
dump(a, d, service, grep) ==
    IF a = None
    THEN [none |-> TRUE, text |-> <<>>, sent |-> <<>>]
    ELSE [none |-> FALSE, text |-> Shell(d, DumpCmd(service, grep)), sent |-> <<DumpCmd(service, grep)>>]

\* FireTV._dump_has: self._dump(...).strip().find(search) > -1
dump_has(a, d, service, grep, search) ==
    LET has(r) ==
            IF r.none
            THEN [exc |-> "AttributeError", val |-> FALSE, sent |-> r.sent]
            ELSE [exc |-> "", val |-> Find(Strip(r.text), search), sent |-> r.sent]
    IN  has(dump(a, d, service, grep))

\* current_focus.replace("\r", "")
RemoveCR(text) == [i \in 1..Len(text) |-> [text[i] EXCEPT !.cr = FALSE]]

\* WINDOW_REGEX on one line: Window{...} and then the end of the line
\* ($ under re.MULTILINE matches before "\n", not before "\r")
LineMatches(line) == line.win /\ ~line.cr

\* WINDOW_REGEX.search: the leftmost match, 0 when there is none
WindowSearch(text) ==
    IF \E i \in 1..Len(text) : LineMatches(text[i])
    THEN CHOOSE i \in 1..Len(text) :
             LineMatches(text[i]) /\ \A j \in 1..(i - 1) : ~LineMatches(text[j])
    ELSE 0

\* FireTV.current_app
current_app(a, d) ==
    LET found(current_focus, m, sent) ==
            IF m # 0
            THEN Return(AppRet(current_focus[m]), sent)
            ELSE Return(NoRet, sent)
        matches(current_focus, sent) == found(current_focus, WindowSearch(current_focus), sent)
        parse(r) ==
            IF r.none
            THEN Raise("AttributeError", r.sent)
            ELSE matches(RemoveCR(r.text), r.sent)
    IN  parse(dump(a, d, "window windows", "mCurrentFocus"))

\* FireTV._screen_on
screen_on(a, d) == dump_has(a, d, "power", "Display Power", "state=ON")

\* FireTV._awake
awake(a, d) == dump_has(a, d, "power", "mWakefulness", "Awake")

\* FireTV._wake_lock
wake_lock(a, d) ==
    LET negate(r) == [r EXCEPT !.val = ~r.val]
    IN  negate(dump_has(a, d, "power", "Locks", "size=0"))

\* FireTV._launcher: self.current_app["package"] == PACKAGE_LAUNCHER
launcher(a, d) ==
    LET package_is(c) ==
            IF c.exc # "" THEN [exc |-> c.exc, val |-> FALSE, sent |-> c.sent]
            ELSE IF c.ret.none THEN [exc |-> "TypeError", val |-> FALSE, sent |-> c.sent]
            ELSE [exc |-> "", val |-> c.ret.package = PACKAGE_LAUNCHER, sent |-> c.sent]
    IN  package_is(current_app(a, d))

\* FireTV.state below its session check: the checks in the order of the
\* code, each one made only when the ones before it did not return
cascade(a, d) ==
    LET if_wake_lock(sent, wl) ==
            IF wl.exc # "" THEN Raise(wl.exc, sent \o wl.sent)
            ELSE IF wl.val THEN Return(StrRet(STATE_PLAYING), sent \o wl.sent)
            ELSE Return(StrRet(STATE_PAUSED), sent \o wl.sent)
        if_launcher(sent, la) ==
            IF la.exc # "" THEN Raise(la.exc, sent \o la.sent)
            ELSE IF la.val THEN Return(StrRet(STATE_STANDBY), sent \o la.sent)
            ELSE if_wake_lock(sent \o la.sent, wake_lock(a, d))
        if_not_awake(sent, aw) ==
            IF aw.exc # "" THEN Raise(aw.exc, sent \o aw.sent)
            ELSE IF ~aw.val THEN Return(StrRet(STATE_IDLE), sent \o aw.sent)
            ELSE if_launcher(sent \o aw.sent, launcher(a, d))
        if_not_screen_on(so) ==
            IF so.exc # "" THEN Raise(so.exc, so.sent)
            ELSE IF ~so.val THEN Return(StrRet(STATE_OFF), so.sent)
            ELSE if_not_awake(so.sent, awake(a, d))
    IN  if_not_screen_on(screen_on(a, d))

\* state without its session check: the dumps are read on no session
state_unguarded(a, d) == cascade(a, d)

\* FireTV.state
state(a, d) ==
    IF a = None THEN Return(StrRet(STATE_DISCONNECTED), <<>>)
    ELSE cascade(a, d)

\* the last lines of app_state: self.current_app["package"] == app
compare_package(sent, c, app) ==
    IF c.exc # "" THEN Raise(c.exc, sent \o c.sent)
    ELSE IF c.ret.none THEN Raise("TypeError", sent \o c.sent)
    ELSE IF c.ret.package = app THEN Return(StrRet(STATE_ON), sent \o c.sent)
    ELSE Return(StrRet(STATE_OFF), sent \o c.sent)

\* app_state without the check of the overall state
app_state_unchecked(a, d, app) == compare_package(<<>>, current_app(a, d), app)

\* FireTV.app_state: self.state is evaluated once for the comparison with
\* STATE_OFF and, when that fails, again for STATE_DISCONNECTED
app_state(a, d, app) ==
    LET if_disconnected(sent, s2) ==
            IF s2.exc # "" THEN Raise(s2.exc, sent \o s2.sent)
            ELSE IF s2.ret.str = STATE_DISCONNECTED THEN Return(StrRet(STATE_OFF), sent \o s2.sent)
            ELSE compare_package(sent \o s2.sent, current_app(a, d), app)
        if_off(s1) ==
            IF s1.exc # "" THEN Raise(s1.exc, s1.sent)
            ELSE IF s1.ret.str = STATE_OFF THEN Return(StrRet(STATE_OFF), s1.sent)
            ELSE if_disconnected(s1.sent, state(a, d))
    IN  if_off(state(a, d))

\* _input without its session check
input_unguarded(a, cmd) == IF a = None THEN Raise("AttributeError", <<>>) ELSE Return(NoRet, <<cmd>>)

\* FireTV._input
input(a, cmd) == IF a = None THEN Return(NoRet, <<>>) ELSE Return(NoRet, <<cmd>>)

\* FireTV._key
key(a, code) == input(a, KeyCmd(code))

\* FireTV._power
power(a) == key(a, POWER)

\* turn_on sending the power key whatever the state is
turn_on_always(a, d) ==
    LET press(s) ==
            IF s.exc # "" THEN Raise(s.exc, s.sent)
            ELSE Return(NoRet, s.sent \o power(a).sent)
    IN  press(state(a, d))

\* FireTV.turn_on
turn_on(a, d) ==
    LET if_off(s) ==
            IF s.exc # "" THEN Raise(s.exc, s.sent)
            ELSE IF s.ret.str = STATE_OFF THEN Return(NoRet, s.sent \o power(a).sent)
            ELSE Return(NoRet, s.sent)
    IN  if_off(state(a, d))

\* FireTV.turn_off
turn_off(a, d) ==
    LET if_not_off(s) ==
            IF s.exc # "" THEN Raise(s.exc, s.sent)
            ELSE IF s.ret.str # STATE_OFF THEN Return(NoRet, s.sent \o power(a).sent)
            ELSE Return(NoRet, s.sent)
    IN  if_not_off(state(a, d))

\* the key-event methods home() .. media_previous() and the code each sends
KeyActions == {"home", "up", "down", "left", "right", "enter", "back", "menu", "volume_up", "volume_down", "media_play_pause", "media_play", "media_pause", "media_next", "media_previous"}

KeyOf(name) ==
    CASE name = "home" -> HOME
      [] name = "up" -> UP
      [] name = "down" -> DOWN
      [] name = "left" -> LEFT
      [] name = "right" -> RIGHT
      [] name = "enter" -> ENTER
      [] name = "back" -> BACK
      [] name = "menu" -> MENU
      [] name = "volume_up" -> VOLUME_UP
      [] name = "volume_down" -> VOLUME_DOWN
      [] name = "media_play_pause" -> PLAY_PAUSE
      [] name = "media_play" -> PLAY
      [] name = "media_pause" -> PAUSE
      [] name = "media_next" -> NEXT
      [] name = "media_previous" -> PREVIOUS

key_action(a, name) == key(a, KeyOf(name))

\* the parse taking the first line for the return code
IntentResultFirst(reply) ==
    LET parts(res) == IntentRet(res[1], JoinLF(SubSeq(res, 2, Len(res))))
    IN  parts(SplitCRLF(Strip(reply)))

\* the parse of the shell's reply in _send_intent:
\* res = reply.strip().split("\r\n"); retcode = res[-1]; output = "\n".join(res[:-1])
IntentResult(reply) ==
    LET parts(res) == IntentRet(res[Len(res)], JoinLF(SubSeq(res, 1, Len(res) - 1)))
    IN  parts(SplitCRLF(Strip(reply)))

\* FireTV._send_intent (count defaults to 1 at both call sites)
send_intent(a, pkg, intent, count, reply) ==
    IF a = None THEN Return(NoRet, <<>>)
    ELSE Return(IntentResult(reply), <<IntentCmd(pkg, intent, count)>>)

\* FireTV.launch_app
launch_app(a, app, reply) ==
    IF a = None THEN Return(NoRet, <<>>)
    ELSE send_intent(a, app, INTENT_LAUNCH, 1, reply)

\* stop_app aiming the intent at the named app
stop_app_direct(a, app, reply) ==
    IF a = None THEN Return(NoRet, <<>>)
    ELSE send_intent(a, app, INTENT_HOME, 1, reply)

\* FireTV.stop_app
stop_app(a, app, reply) ==
    IF a = None THEN Return(NoRet, <<>>)
    ELSE send_intent(a, PACKAGE_LAUNCHER, INTENT_HOME, 1, reply)

\* ----------------------------------------------------------- the state
\* host, adb: the Device's endpoint and session handle (None or the number
\* of the session); connects: sessions opened so far; dev: the device's
\* dumps; last: the latest operation with its inputs and outcome; prev:
\* kept for turn_on and turn_off, the operation made just before.
Hosts == {"192.168.0.23:5555"}
AppIds == Apps \cup {"com.any.package"}
ReplyTokens == {"x", "0", CRLF, LF}
MainReplies == {<<"x", CRLF, "0", CRLF>>}
Replies == TextsUpTo(ReplyTokens, MaxReplyLen)
ConnectOutcomes == {"ok", "refused", "socket_error", "multi_adb", "value_error"}

PowerKeys(sent) == Cardinality({i \in 1..Len(sent) : sent[i] = KeyCmd(POWER)})

\* log: what the call wrote with logging.error; tries: how many times it
\* called ConnectDevice; fault: the failure the transport raised during it
NoOp == [op |-> "none", arg |-> "", host0 |-> "", adb0 |-> None, pre |-> <<>>, reply |-> <<>>, ret |-> NoRet, sent |-> <<>>, exc |-> "", log |-> "", tries |-> 0, fault |-> ""]

Summary(l) == [op |-> IF l.op \in {"turn_on", "turn_off"} THEN l.op ELSE "other", keys |-> PowerKeys(l.sent)]
NoPrev == Summary(NoOp)

\* the record of one call: its name, its argument, the Device and the
\* device as the call found them, the reply it read, and its outcome
Call(op, arg, reply, out) ==
    [op |-> op, arg |-> arg, host0 |-> host, adb0 |-> adb, pre |-> dev, reply |-> reply, ret |-> out.ret, sent |-> out.sent, exc |-> out.exc, log |-> "", tries |-> 0, fault |-> ""]

\* a call that leaves the Device as it is; the device sees the commands
Run(op, arg, reply, out) ==
    /\ last' = Call(op, arg, reply, out)
    /\ prev' = (IF op \in {"turn_on", "turn_off"} THEN Summary(last) ELSE NoPrev)
    /\ dev' = Deliver(dev, out.sent)
    /\ UNCHANGED <<host, adb, connects, corrupted, registry>>

\* FireTV.__init__: the object exists when the first connect did not raise
Init ==
    /\ host \in Hosts
    /\ adb \in {None, 1}
    /\ connects = (IF adb = None THEN 0 ELSE 1)
    /\ dev \in Devices
    /\ last = NoOp
    /\ prev = NoPrev
    /\ corrupted = {}
    /\ registry = <<>>

\* what logging.error writes for the multiple-connections ValueError
RebootHint == "Reboot Fire TV, it has multiple ADB connections."

\* connect letting every socket error pass, not only ECONNREFUSED
connect_swallowing(a, n, outcome) ==
    IF outcome = "ok" THEN [adb |-> n + 1, connects |-> n + 1, exc |-> "", log |-> "", tries |-> 1]
    ELSE IF outcome \in {"refused", "socket_error"} THEN [adb |-> a, connects |-> n, exc |-> "", log |-> "", tries |-> 1]
    ELSE IF outcome = "multi_adb" THEN [adb |-> a, connects |-> n, exc |-> "", log |-> RebootHint, tries |-> 1]
    ELSE [adb |-> a, connects |-> n, exc |-> "ValueError", log |-> "", tries |-> 1]

\* connect raising the multiple-connections ValueError after logging it
connect_raising(a, n, outcome) ==
    IF outcome = "ok" THEN [adb |-> n + 1, connects |-> n + 1, exc |-> "", log |-> "", tries |-> 1]
    ELSE IF outcome = "refused" THEN [adb |-> a, connects |-> n, exc |-> "", log |-> "", tries |-> 1]
    ELSE IF outcome = "socket_error" THEN [adb |-> a, connects |-> n, exc |-> "socket.error", log |-> "", tries |-> 1]
    ELSE IF outcome = "multi_adb" THEN [adb |-> a, connects |-> n, exc |-> "ValueError", log |-> RebootHint, tries |-> 1]
    ELSE [adb |-> a, connects |-> n, exc |-> "ValueError", log |-> "", tries |-> 1]

\* FireTV.connect on a Device whose session is a, the n-th session being
\* the last one opened, for each outcome of ConnectDevice: self._adb is
\* assigned on success only; a socket error with errno ECONNREFUSED is
\* passed over, any other is raised; the ValueError of the
\* multiple-connections bug is logged, any other is raised
connect(a, n, outcome) ==
    IF outcome = "ok" THEN [adb |-> n + 1, connects |-> n + 1, exc |-> "", log |-> "", tries |-> 1]
    ELSE IF outcome = "refused" THEN [adb |-> a, connects |-> n, exc |-> "", log |-> "", tries |-> 1]
    ELSE IF outcome = "socket_error" THEN [adb |-> a, connects |-> n, exc |-> "socket.error", log |-> "", tries |-> 1]
    ELSE IF outcome = "multi_adb" THEN [adb |-> a, connects |-> n, exc |-> "", log |-> RebootHint, tries |-> 1]
    ELSE [adb |-> a, connects |-> n, exc |-> "ValueError", log |-> "", tries |-> 1]

\* a call of connect()
Connect ==
    \E outcome \in ConnectOutcomes :
        LET c == connect(adb, connects, outcome)
        IN  /\ outcome = "ok" => connects < MaxSessions
            /\ adb' = c.adb
            /\ connects' = c.connects
            /\ last' = [Call("connect", outcome, <<>>, [ret |-> NoRet, sent |-> <<>>, exc |-> c.exc]) EXCEPT !.log = c.log, !.tries = c.tries]
            /\ prev' = NoPrev
            /\ UNCHANGED <<host, dev, corrupted, registry>>

QueryState == Run("state", "", <<>>, state(adb, dev))

AppState == \E app \in Apps : Run("app_state", app, <<>>, app_state(adb, dev, app))

CurrentApp == Run("current_app", "", <<>>, current_app(adb, dev))

TurnOn == Run("turn_on", "", <<>>, turn_on(adb, dev))

TurnOff == Run("turn_off", "", <<>>, turn_off(adb, dev))

KeyAction == \E name \in KeyActions : Run(name, "", <<>>, key_action(adb, name))

LaunchApp(R) == \E app \in AppIds, reply \in R : Run("launch_app", app, reply, launch_app(adb, app, reply))

StopApp(R) == \E app \in AppIds, reply \in R : Run("stop_app", app, reply, stop_app(adb, app, reply))

\* the device changes on its own: one of its dumps reads differently
DeviceChange ==
    /\ \/ \E x \in DisplayDumps : dev' = [dev EXCEPT !.display = x]
       \/ \E x \in WakeDumps : dev' = [dev EXCEPT !.wake = x]
       \/ \E x \in LockDumps : dev' = [dev EXCEPT !.locks = x]
       \/ \E x \in FocusDumps : dev' = [dev EXCEPT !.focus = x]
    /\ dev' # dev
    /\ last' = NoOp
    /\ prev' = NoPrev
    /\ UNCHANGED <<host, adb, connects, corrupted, registry>>

Next ==
    \/ Connect
    \/ QueryState
    \/ AppState
    \/ CurrentApp
    \/ TurnOn
    \/ TurnOff
    \/ KeyAction
    \/ LaunchApp(MainReplies)
    \/ StopApp(MainReplies)
    \/ DeviceChange

Spec == Init /\ [][Next]_vars

\* The intent commands alone: one call on a fresh Device, over every
\* reply text up to MaxReplyLen, on a device that does not change.
IntentInit ==
    /\ host \in Hosts
    /\ adb \in {None, 1}
    /\ connects = (IF adb = None THEN 0 ELSE 1)
    /\ dev = [display |-> <<"state=ON", CRLF>>, wake |-> <<"Awake", CRLF>>, locks |-> <<"size=0", CRLF>>, focus |-> <<WindowLine(OtherPackage, OtherActivity)>>]
    /\ last = NoOp
    /\ prev = NoPrev
    /\ corrupted = {}
    /\ registry = <<>>

IntentNext ==
    \/ last.op = "none" /\ LaunchApp(Replies)
    \/ last.op = "none" /\ StopApp(Replies)

IntentSpec == IntentInit /\ [][IntentNext]_vars

\* ------------------------------------------- the focus text, by token
\* The window-focus text as a sequence of tokens: "Window{", " ", "/", "}",
\* "\r", the line breaks and words. The lines above are this text already
\* read; here WINDOW_REGEX reads it.
MaxNameLen == 2

Least(S) == CHOOSE x \in S : \A y \in S : x <= y
Greatest(S) == CHOOSE x \in S : \A y \in S : x >= y

\* str.replace("\r", "") on a token text
ReplaceCR(t) ==
    LET crlfToLf == [i \in 1..Len(t) |-> IF t[i] = CRLF THEN LF ELSE t[i]]
    IN  SelectSeq(crlfToLf, LAMBDA c : c # "\r")

\* the lines of a text between its "\n", the unit within which "." matches
\* and at whose end "$" matches under re.MULTILINE
RECURSIVE SplitLF(_)
SplitLF(t) ==
    IF \E i \in 1..Len(t) : t[i] = LF
    THEN LET i == Least({j \in 1..Len(t) : t[j] = LF})
         IN  <<SubSeq(t, 1, i - 1)>> \o SplitLF(SubSeq(t, i + 1, Len(t)))
    ELSE <<t>>

\* WindowRegex splitting the package at the last "/" instead of the first
WindowRegexGreedy(t) ==
    LET n == Len(t)
        users(i1) == {i2 \in (i1 + 2)..(n - 2) : t[i2] = " "}
        ids(s) == {i1 \in (s + 2)..n : t[i1] = " " /\ users(i1) # {}}
        starts == {s \in 1..n : t[s] = "Window{" /\ t[n] = "}" /\ ids(s) # {}}
        split(i2, slashes) ==
            IF slashes # {}
            THEN [win |-> TRUE, package |-> SubSeq(t, i2 + 1, Greatest(slashes) - 1), hasActivity |-> TRUE, activity |-> SubSeq(t, Greatest(slashes) + 1, n - 1), cr |-> FALSE]
            ELSE [win |-> TRUE, package |-> SubSeq(t, i2 + 1, n - 1), hasActivity |-> FALSE, activity |-> <<>>, cr |-> FALSE]
        groups(i2) == split(i2, {k \in (i2 + 2)..(n - 2) : t[k] = "/"})
    IN  IF starts = {}
        THEN [win |-> FALSE, package |-> <<>>, hasActivity |-> FALSE, activity |-> <<>>, cr |-> FALSE]
        ELSE groups(Greatest(users(Least(ids(Least(starts))))))

\* WINDOW_REGEX on the tokens of one line, as the backtracking matcher
\* settles it: the leftmost "Window{" from which a match exists; id lazy, up
\* to the first space that leaves a match; user greedy, up to the last space
\* that leaves a package before the closing "}" at the end of the line;
\* package lazy, up to the first "/" that leaves an activity, else up to the
\* closing "}"; the result is the line read, as in WindowLine
WindowRegex(t) ==
    LET n == Len(t)
        users(i1) == {i2 \in (i1 + 2)..(n - 2) : t[i2] = " "}
        ids(s) == {i1 \in (s + 2)..n : t[i1] = " " /\ users(i1) # {}}
        starts == {s \in 1..n : t[s] = "Window{" /\ t[n] = "}" /\ ids(s) # {}}
        split(i2, slashes) ==
            IF slashes # {}
            THEN [win |-> TRUE, package |-> SubSeq(t, i2 + 1, Least(slashes) - 1), hasActivity |-> TRUE, activity |-> SubSeq(t, Least(slashes) + 1, n - 1), cr |-> FALSE]
            ELSE [win |-> TRUE, package |-> SubSeq(t, i2 + 1, n - 1), hasActivity |-> FALSE, activity |-> <<>>, cr |-> FALSE]
        groups(i2) == split(i2, {k \in (i2 + 2)..(n - 2) : t[k] = "/"})
    IN  IF starts = {}
        THEN [win |-> FALSE, package |-> <<>>, hasActivity |-> FALSE, activity |-> <<>>, cr |-> FALSE]
        ELSE groups(Greatest(users(Least(ids(Least(starts))))))

\* current_app from the dump's text on: the "\r" removed, WINDOW_REGEX
\* searched, the first line it matches returned as package and activity
current_app_of(text) ==
    LET found(lines, hits) ==
            IF hits = {} THEN NoRet ELSE AppRet(WindowRegex(lines[Least(hits)]))
        search(lines) == found(lines, {i \in 1..Len(lines) : WindowRegex(lines[i]).win})
    IN  search(SplitLF(ReplaceCR(text)))

\* the names a window line is written from
PackageNames == TextsUpTo({"com", "."}, MaxNameLen) \ {<<>>}
ActivityNames == TextsUpTo({"Main", "/"}, MaxNameLen) \ {<<>>}
LineEnds == {<<>>, <<CRLF>>, <<LF>>}

\* Window{<id> <user> <package>[/<activity>]} written out
WindowText(pkg, hasAct, act) ==
    <<"Window{", "299091cd", " ", "u0", " ">> \o pkg \o (IF hasAct THEN <<"/">> \o act ELSE <<>>) \o <<"}">>

\* one call of the parse, on a focus text of one line
ParseInit ==
    /\ host \in Hosts
    /\ adb = 1
    /\ connects = 1
    /\ dev = [display |-> <<"state=ON", CRLF>>, wake |-> <<"Awake", CRLF>>, locks |-> <<"size=0", CRLF>>, focus |-> <<WindowLine(OtherPackage, OtherActivity)>>]
    /\ last = NoOp
    /\ prev = NoPrev
    /\ corrupted = {}
    /\ registry = <<>>

ParseWindow ==
    /\ last.op = "none"
    /\ \E pkg \in PackageNames, hasAct \in BOOLEAN, act \in ActivityNames, prefix \in {<<>>, <<"mCurrentFocus=">>}, end \in LineEnds :
        /\ last' = [Call("parse", [package |-> pkg, hasActivity |-> hasAct, activity |-> IF hasAct THEN act ELSE <<>>], prefix \o WindowText(pkg, hasAct, act) \o end, Return(current_app_of(prefix \o WindowText(pkg, hasAct, act) \o end), <<>>)) EXCEPT !.pre = <<>>]
        /\ UNCHANGED <<host, adb, connects, dev, prev, corrupted, registry>>

ParseOther ==
    /\ last.op = "none"
    /\ \E end \in LineEnds :
        /\ last' = [Call("parse_other", "", <<"mCurrentFocus=null">> \o end, Return(current_app_of(<<"mCurrentFocus=null">> \o end), <<>>)) EXCEPT !.pre = <<>>]
        /\ UNCHANGED <<host, adb, connects, dev, prev, corrupted, registry>>

ParseNext ==
    \/ ParseWindow
    \/ ParseOther

ParseSpec == ParseInit /\ [][ParseNext]_vars

\* ------------------------------------------------- the process listing
\* The output of 'ps' as a sequence of tokens: words, spaces and line
\* breaks; the transport hands it over in chunks, cut anywhere.
MaxPsLen == 4

\* self._adb.StreamingShell('ps')
PsCmd == [kind |-> "ps", a |-> "", b |-> "", n |-> 0]

PsTokens == {"u0_a", "sh", " ", LF}

\* str.splitlines(): the lines of a chunk, no empty line after a final break
RECURSIVE SplitLines(_)
SplitLines(t) ==
    IF t = <<>>
    THEN <<>>
    ELSE IF \E i \in 1..Len(t) : t[i] \in {CRLF, LF}
         THEN LET i == Least({j \in 1..Len(t) : t[j] \in {CRLF, LF}})
              IN  <<SubSeq(t, 1, i - 1)>> \o SplitLines(SubSeq(t, i + 1, Len(t)))
         ELSE <<t>>

\* str.rsplit(' ', 1)[-1]: what follows the last space
LastField(t) ==
    IF Find(t, " ")
    THEN SubSeq(t, Greatest({i \in 1..Len(t) : t[i] = " "}) + 1, Len(t))
    ELSE t

\* the inner loop of _ps over the lines of one chunk
RECURSIVE Fields(_, _)
Fields(lines, search) ==
    IF lines = <<>>
    THEN <<>>
    ELSE (IF Find(Head(lines), search) THEN <<LastField(Strip(Head(lines)))>> ELSE <<>>)
         \o Fields(Tail(lines), search)

\* the outer loop of _ps over the chunks the stream yields
RECURSIVE Consume(_, _)
Consume(chunks, search) ==
    IF chunks = <<>>
    THEN <<>>
    ELSE Fields(SplitLines(Head(chunks)), search) \o Consume(Tail(chunks), search)

\* FireTV._ps on a Device whose session is a, the n-th session being the
\* last one opened: the stream yields the chunks, and when failAt > 0 it
\* raises InvalidChecksumError in place of chunk number failAt; then
\* connect() is called, with the given outcome of ConnectDevice, and
\* IOError is raised unless connect itself raised
ps(a, n, search, chunks, failAt, outcome) ==
    LET failed(c) ==
            [ret |-> NoRet, sent |-> <<PsCmd>>, exc |-> IF c.exc # "" THEN c.exc ELSE "IOError",
             adb |-> c.adb, connects |-> c.connects, log |-> c.log, tries |-> c.tries, fault |-> "InvalidChecksumError"]
    IN  IF a = None
        THEN [ret |-> NoRet, sent |-> <<>>, exc |-> "", adb |-> a, connects |-> n, log |-> "", tries |-> 0, fault |-> ""]
        ELSE IF failAt = 0
             THEN [ret |-> ListRet(Consume(chunks, search)), sent |-> <<PsCmd>>, exc |-> "", adb |-> a, connects |-> n, log |-> "", tries |-> 0, fault |-> ""]
             ELSE failed(connect(a, n, outcome))

\* FireTV.running_apps
running_apps(a, n, chunks, failAt, outcome) == ps(a, n, "u0_a", chunks, failAt, outcome)

\* a text cut into chunks after the given positions
RECURSIVE Cut(_, _)
Cut(t, cuts) ==
    IF cuts = {}
    THEN IF t = <<>> THEN <<>> ELSE <<t>>
    ELSE <<SubSeq(t, 1, Least(cuts))>>
         \o Cut(SubSeq(t, Least(cuts) + 1, Len(t)), {x - Least(cuts) : x \in cuts \ {Least(cuts)}})

\* a call that may replace the session: its record, the handle it leaves,
\* and the handle on which it saw the transport fail
Listed(op, arg, text, r) ==
    /\ last' = [Call(op, arg, text, r) EXCEPT !.log = r.log, !.tries = r.tries, !.fault = r.fault]
    /\ adb' = r.adb
    /\ connects' = r.connects
    /\ corrupted' = (IF r.fault = "" THEN corrupted ELSE corrupted \cup {adb})
    /\ prev' = NoPrev
    /\ UNCHANGED <<host, dev, registry>>

\* a call of running_apps() whose stream ends normally
RunningApps(Texts) ==
    \E text \in Texts : \E cuts \in SUBSET (1..(Len(text) - 1)) :
        Listed("running_apps", [chunks |-> Cut(text, cuts), failAt |-> 0, outcome |-> ""], text,
               running_apps(adb, connects, Cut(text, cuts), 0, "ok"))

\* a call of running_apps() whose stream raises InvalidChecksumError
RunningAppsCorrupted(Texts) ==
    /\ adb # None
    /\ \E text \in Texts : \E cuts \in SUBSET (1..(Len(text) - 1)) :
       \E failAt \in 1..(Len(Cut(text, cuts)) + 1), outcome \in ConnectOutcomes :
           /\ outcome = "ok" => connects < MaxSessions
           /\ Listed("running_apps", [chunks |-> Cut(text, cuts), failAt |-> failAt, outcome |-> outcome], text,
                     running_apps(adb, connects, Cut(text, cuts), failAt, outcome))

PsInit ==
    /\ host \in Hosts
    /\ adb \in {None, 1}
    /\ connects = (IF adb = None THEN 0 ELSE 1)
    /\ dev = [display |-> <<"state=ON", CRLF>>, wake |-> <<"Awake", CRLF>>, locks |-> <<"size=0", CRLF>>, focus |-> <<WindowLine(OtherPackage, OtherActivity)>>]
    /\ last = NoOp
    /\ prev = NoPrev
    /\ corrupted = {}
    /\ registry = <<>>

PsNext ==
    \/ last.op = "none" /\ RunningApps(TextsUpTo(PsTokens, MaxPsLen))
    \/ last.op = "none" /\ RunningAppsCorrupted(TextsUpTo(PsTokens, MaxPsLen))

PsSpec == PsInit /\ [][PsNext]_vars

\* ------------------------------------------------- transport failures
\* FireTV._input, _dump and _send_intent when self._adb.Shell raises
\* InvalidChecksumError: none of them has an except clause, so with a
\* session the command is issued and the error leaves the method as it is;
\* connect is not called and self._adb stays
shell_raising(a, n, cmd) ==
    IF a = None
    THEN [ret |-> NoRet, sent |-> <<>>, exc |-> "", adb |-> a, connects |-> n, log |-> "", tries |-> 0, fault |-> ""]
    ELSE [ret |-> NoRet, sent |-> <<cmd>>, exc |-> "InvalidChecksumError", adb |-> a, connects |-> n, log |-> "", tries |-> 0, fault |-> "InvalidChecksumError"]

\* a call whose shell command fails in the transport
Faulted(op, arg, r) ==
    /\ last' = [Call(op, arg, <<>>, r) EXCEPT !.log = r.log, !.tries = r.tries, !.fault = r.fault]
    /\ adb' = r.adb
    /\ connects' = r.connects
    /\ prev' = NoPrev
    /\ UNCHANGED <<host, dev, corrupted, registry>>

KeyActionCorrupted ==
    /\ adb # None
    /\ \E name \in KeyActions : Faulted(name, "", shell_raising(adb, connects, KeyCmd(KeyOf(name))))

CurrentAppCorrupted ==
    /\ adb # None
    /\ Faulted("current_app", "", shell_raising(adb, connects, DumpCmd("window windows", "mCurrentFocus")))

LaunchAppCorrupted ==
    /\ adb # None
    /\ \E app \in AppIds : Faulted("launch_app", app, shell_raising(adb, connects, IntentCmd(app, INTENT_LAUNCH, 1)))

\* the listing the device gives in these runs
FaultTexts == {<<"u0_a", " ", "sh", LF>>}

FaultNext ==
    \/ Connect
    \/ KeyAction
    \/ RunningApps(FaultTexts)
    \/ RunningAppsCorrupted(FaultTexts)
    \/ KeyActionCorrupted
    \/ CurrentAppCorrupted
    \/ LaunchAppCorrupted

FaultSpec == PsInit /\ [][FaultNext]_vars

\* ------------------------------------------------- the device registry
\* KNOWN_DEVICES of src/firetv/__main__.py: the Devices by identifier.
\* Identifiers and hosts are sequences of tokens.
MaxIdLen == 2

\* the tokens of [-\w], and those of str.isdigit()
WordTokens == {"a", "-"}
DigitTokens == {"5"}

\* identifiers as they arrive: a word character, another character, "\n"
DeviceIds == TextsUpTo({"a", "!", LF}, MaxIdLen)

\* hosts as they arrive
RegistryHosts ==
    {<<"h", ":", "5">>, <<"h", ":", "5", "5">>, <<":", "5">>, <<"h">>, <<"h", ":">>, <<"h", ":", "h">>, <<"h", ":", "5", ":", "5">>}

\* str.split(':')
RECURSIVE SplitColon(_)
SplitColon(t) ==
    IF \E i \in 1..Len(t) : t[i] = ":"
    THEN LET i == Least({j \in 1..Len(t) : t[j] = ":"})
         IN  <<SubSeq(t, 1, i - 1)>> \o SplitColon(SubSeq(t, i + 1, Len(t)))
    ELSE <<t>>

\* str.isdigit()
IsDigit(t) == t # <<>> /\ \A i \in 1..Len(t) : t[i] \in DigitTokens

\* is_valid_host
is_valid_host(h) == ~(Len(SplitColon(h)) # 2 \/ ~IsDigit(SplitColon(h)[2]))

\* is_valid_device_id: VALID_DEVICE_ID.match, whether there is a match;
\* "$" matches at the end of the string and also before a "\n" that ends it
is_valid_device_id(device_id) ==
    LET n == Len(device_id)
        words(j) == j >= 1 /\ \A i \in 1..j : device_id[i] \in WordTokens
    IN  words(n) \/ (words(n - 1) /\ device_id[n] = LF)

\* add: the registry it leaves and what it returns (None for a bad
\* identifier, False for a bad host, True when the Device is stored); the
\* FireTV constructor connects, and what it raises leaves add
add(reg, device_id, h, outcome) ==
    LET stored(c) ==
            IF c.exc # ""
            THEN [registry |-> reg, ret |-> NoRet, exc |-> c.exc]
            ELSE [registry |-> [x \in (DOMAIN reg) \cup {device_id} |-> IF x = device_id THEN [host |-> h] ELSE reg[x]],
                  ret |-> StrRet("True"), exc |-> ""]
    IN  IF ~is_valid_device_id(device_id)
        THEN [registry |-> reg, ret |-> NoRet, exc |-> ""]
        ELSE IF ~is_valid_host(h)
             THEN [registry |-> reg, ret |-> StrRet("False"), exc |-> ""]
             ELSE stored(connect(None, 0, outcome))

\* a call of add, from the HTTP route, the default host or the config file
Add ==
    \E device_id \in DeviceIds, h \in RegistryHosts, outcome \in {"ok", "refused", "socket_error"} :
        LET added(r) ==
                /\ registry' = r.registry
                /\ last' = [Call("add", [device_id |-> device_id, host |-> h], <<>>, [ret |-> r.ret, sent |-> <<>>, exc |-> r.exc]) EXCEPT !.pre = registry]
        IN  /\ added(add(registry, device_id, h, outcome))
            /\ UNCHANGED <<host, adb, connects, dev, prev, corrupted>>

RegistryInit ==
    /\ host \in Hosts
    /\ adb = None
    /\ connects = 0
    /\ dev = [display |-> <<"state=ON", CRLF>>, wake |-> <<"Awake", CRLF>>, locks |-> <<"size=0", CRLF>>, focus |-> <<WindowLine(OtherPackage, OtherActivity)>>]
    /\ last = NoOp
    /\ prev = NoPrev
    /\ corrupted = {}
    /\ registry = <<>>

RegistryNext == Add

RegistrySpec == RegistryInit /\ [][RegistryNext]_vars

\* ------------------------------------------------------------ the claims
\* The facts of a call, read off the device as the call found it.
Words(t) == {t[i] : i \in 1..Len(t)}
HasSession(l) == l.adb0 # None
ScreenIsOn(d) == "state=ON" \in Words(d.display)
IsAwake(d) == "Awake" \in Words(d.wake)
NoLocks(d) == "size=0" \in Words(d.locks)
WindowLines(d) == {d.focus[i] : i \in {j \in 1..Len(d.focus) : d.focus[j].win}}
\* whether the focused package is the launcher: decided by the window
\* lines of the focus dump, and false when it has none
LauncherFocused(d) ==
    IF WindowLines(d) = {} THEN {FALSE}
    ELSE {w.package = PACKAGE_LAUNCHER : w \in WindowLines(d)}

DeviceStates == {"disconnected", "off", "idle", "standby", "play", "pause"}

FirstRule(live, screenOn, isAwake, launcherFocused, noLocks) ==
    IF ~live THEN "disconnected"
    ELSE IF ~screenOn THEN "off"
    ELSE IF ~isAwake THEN "idle"
    ELSE IF launcherFocused THEN "standby"
    ELSE IF ~noLocks THEN "play"
    ELSE "pause"

RuleResults(l) ==
    {FirstRule(HasSession(l), ScreenIsOn(l.pre), IsAwake(l.pre), lf, NoLocks(l.pre)) : lf \in LauncherFocused(l.pre)}

FocusCmd == [kind |-> "dumpsys", a |-> "window windows", b |-> "mCurrentFocus", n |-> 0]
KeyCmds(sent) == {i \in 1..Len(sent) : sent[i].kind = "input keyevent"}

\* C1: for every combination of session, screen, wakefulness, focus and lock
\* facts the state query returns the result of the first matching rule of
\* the cascade disconnected, off, idle, standby, playing, paused.
C1_FirstMatchingRule ==
    last.op = "state" =>
        /\ last.exc = ""
        /\ ~last.ret.none
        /\ last.ret.str \in RuleResults(last)

\* C1 where the focus dump has a window line (or is never read): the
\* cascade holds there.
C1_FirstMatchingRuleWhenParsed ==
    (last.op = "state" /\ last.exc = "") =>
        /\ ~last.ret.none
        /\ last.ret.str \in RuleResults(last)

\* C2: with no live session the state query returns disconnected whatever
\* the device's facts are, issues no shell command and does not raise.
C2_NoSessionDisconnected ==
    (last.op = "state" /\ ~HasSession(last)) =>
        /\ last.exc = ""
        /\ last.ret = StrRet("disconnected")
        /\ last.sent = <<>>

C2_Witness ==
    /\ last.op = "state"
    /\ ~HasSession(last)
    /\ ScreenIsOn(last.pre)
    /\ IsAwake(last.pre)
    /\ last.pre.focus = <<WindowLine(PACKAGE_LAUNCHER, "")>>
    /\ last.ret.str = "disconnected"

\* C3: with a live session, the screen on and the device awake, a focus
\* dump with no Window{...} line does not make the state query or app_state
\* raise: state returns one of the six states, app_state returns on or off.
C3_ParseFailureDoesNotRaise ==
    (/\ last.op \in {"state", "app_state"}
     /\ HasSession(last)
     /\ ScreenIsOn(last.pre)
     /\ IsAwake(last.pre)
     /\ WindowLines(last.pre) = {}) =>
        /\ last.exc = ""
        /\ last.op = "state" => last.ret.str \in DeviceStates
        /\ last.op = "app_state" => last.ret.str \in {"on", "off"}

\* C4: app_state returns off whenever the overall state is off or
\* disconnected, also when the focused package is the queried one, and then
\* makes no focused-window query; a result that is decided otherwise is the
\* comparison of the package with the focused window's package.
C4_AppStateShortCircuit ==
    last.op = "app_state" =>
        LET offOrDisconnected == ~HasSession(last) \/ ~ScreenIsOn(last.pre)
        IN  /\ offOrDisconnected =>
                /\ last.exc = ""
                /\ last.ret = StrRet("off")
                /\ \A i \in 1..Len(last.sent) : last.sent[i] # FocusCmd
            /\ (~offOrDisconnected /\ last.exc = "") =>
                /\ last.sent[Len(last.sent)] = FocusCmd
                /\ last.ret.str \in {IF w.package = last.arg THEN "on" ELSE "off" : w \in WindowLines(last.pre)}

C4_Witness ==
    /\ last.op = "app_state"
    /\ HasSession(last)
    /\ ~ScreenIsOn(last.pre)
    /\ last.pre.focus = <<WindowLine(OtherPackage, OtherActivity)>>
    /\ last.arg = OtherPackage
    /\ last.ret.str = "off"

\* C5: current_app never raises: it returns the package and activity of a
\* window line when the focus dump has one, and None when it has none and
\* when there is no session, where it issues no shell command.
C5_CurrentAppNeverRaises ==
    last.op = "current_app" =>
        /\ last.exc = ""
        /\ (HasSession(last) /\ WindowLines(last.pre) # {}) =>
               \E w \in WindowLines(last.pre) : last.ret = AppRet(w)
        /\ (HasSession(last) /\ WindowLines(last.pre) = {}) => last.ret.none
        /\ ~HasSession(last) => (last.ret.none /\ last.sent = <<>>)

\* C6: turn_on sends exactly one power key when the state is off and no key
\* event otherwise; turn_off sends no power key when the state is off; with
\* no session neither sends anything.
C6_PowerOnlyOnDisagreement ==
    LET inferredOff == HasSession(last) /\ ~ScreenIsOn(last.pre)
    IN  /\ last.op = "turn_on" =>
            /\ inferredOff => (PowerKeys(last.sent) = 1 /\ Cardinality(KeyCmds(last.sent)) = 1)
            /\ ~inferredOff => KeyCmds(last.sent) = {}
        /\ last.op = "turn_off" =>
            /\ inferredOff => (PowerKeys(last.sent) = 0 /\ last.exc = "")
        /\ (last.op \in {"turn_on", "turn_off"} /\ ~HasSession(last)) =>
            (last.sent = <<>> /\ last.exc = "")

C6_Witness ==
    /\ last.op = "turn_on"
    /\ HasSession(last)
    /\ ~ScreenIsOn(last.pre)
    /\ last.sent[Len(last.sent)] = [kind |-> "input keyevent", a |-> "", b |-> "", n |-> 26]
    /\ ScreenIsOn(dev)

\* C7: on a connected device whose power key toggles the screen, two
\* consecutive turn_on calls send at most one power key and leave the state
\* non-off; two consecutive turn_off calls send at most one power key and
\* leave the state off.
C7_TwiceIsOnce ==
    /\ (last.op = "turn_on" /\ prev.op = "turn_on" /\ HasSession(last)) =>
           /\ prev.keys + PowerKeys(last.sent) <= 1
           /\ ScreenIsOn(dev)
    /\ (last.op = "turn_off" /\ prev.op = "turn_off" /\ HasSession(last)) =>
           /\ prev.keys + PowerKeys(last.sent) <= 1
           /\ ~ScreenIsOn(dev)

\* C7 for the calls that return: the second of two turn_on or turn_off
\* calls that did not raise.
C7_TwiceIsOnceWhenReturned ==
    /\ (last.op = "turn_on" /\ prev.op = "turn_on" /\ HasSession(last)) =>
           /\ prev.keys + PowerKeys(last.sent) <= 1
           /\ ScreenIsOn(dev)
    /\ (last.op = "turn_off" /\ prev.op = "turn_off" /\ HasSession(last) /\ last.exc = "") =>
           /\ prev.keys + PowerKeys(last.sent) <= 1
           /\ ~ScreenIsOn(dev)

\* C8: stop_app(A) with a session issues exactly one command, the HOME
\* intent to the launcher package with count 1, whatever A is; with no
\* session it issues nothing and returns None.
C8_StopAppGoesHome ==
    last.op = "stop_app" =>
        /\ last.exc = ""
        /\ HasSession(last) =>
               /\ last.sent = <<[kind |-> "monkey", a |-> "com.amazon.tv.launcher", b |-> "android.intent.category.HOME", n |-> 1]>>
               /\ ~last.ret.none
        /\ ~HasSession(last) => (last.sent = <<>> /\ last.ret = NoRet)

C8_Witness ==
    /\ last.op = "stop_app"
    /\ HasSession(last)
    /\ last.arg = "com.any.package"
    /\ Len(last.sent) = 1
    /\ last.sent[1].a = PACKAGE_LAUNCHER

\* the last line of a stripped reply: what follows its last CRLF
LastBreak(t) == IF \E i \in 1..Len(t) : t[i] = CRLF
                THEN CHOOSE i \in 1..Len(t) : t[i] = CRLF /\ \A j \in (i + 1)..Len(t) : t[j] # CRLF
                ELSE 0
FinalLine(t) == SubSeq(t, LastBreak(t) + 1, Len(t))
\* the lines before it, kept in order, a "\n" where each CRLF between them was
PrecedingLines(t) == [i \in 1..(LastBreak(t) - 1) |-> IF t[i] = CRLF THEN LF ELSE t[i]]

\* C9: launch_app with a session issues one LAUNCHER intent command for the
\* identifier with count 1 and returns the final line of the reply as the
\* return code and the lines before it, joined in order, as the output;
\* with no session it issues nothing and returns None.
C9_LaunchAppResult ==
    last.op = "launch_app" =>
        /\ last.exc = ""
        /\ HasSession(last) =>
               /\ last.sent = <<[kind |-> "monkey", a |-> last.arg, b |-> "android.intent.category.LAUNCHER", n |-> 1]>>
               /\ ~last.ret.none
               /\ last.ret.retcode = FinalLine(Strip(last.reply))
               /\ last.ret.output = PrecedingLines(Strip(last.reply))
               /\ LastBreak(Strip(last.reply)) = 0 => last.ret.output = <<>>
        /\ ~HasSession(last) => (last.sent = <<>> /\ last.ret = NoRet)

C9_Witness ==
    /\ last.op = "launch_app"
    /\ HasSession(last)
    /\ last.reply = <<"x", CRLF, "0", CRLF, "0">>
    /\ last.ret.retcode = <<"0">>
    /\ last.ret.output = <<"x", LF, "0">>

\* C10: a key-event action with a session issues exactly one command,
\* input keyevent with the action's code; with no session it issues none;
\* either way it returns nothing, does not raise, and leaves the session
\* handle and the endpoint as they were.
C10_KeyEventFrame ==
    last.op \in KeyActions =>
        /\ last.exc = ""
        /\ last.ret = NoRet
        /\ HasSession(last) => last.sent = <<[kind |-> "input keyevent", a |-> "", b |-> "", n |-> KeyOf(last.op)]>>
        /\ ~HasSession(last) => last.sent = <<>>
        /\ adb = last.adb0
        /\ host = last.host0

C10_Witness ==
    /\ last.op = "media_play_pause"
    /\ HasSession(last)
    /\ last.sent = <<[kind |-> "input keyevent", a |-> "", b |-> "", n |-> 85]>>

C10_WitnessNoSession ==
    /\ last.op = "home"
    /\ ~HasSession(last)
    /\ last.sent = <<>>

\* C11: a connect that the remote refuses returns without raising and
\* leaves the Device with no session, so that the state query returns
\* disconnected and every key action sends nothing; this for a connect on
\* a Device that already held a session as for the one made at construction.
C11_RefusedLeavesNoSession ==
    (last.op = "connect" /\ last.arg = "refused") =>
        /\ last.exc = ""
        /\ adb = None
        /\ state(adb, dev).ret = StrRet(STATE_DISCONNECTED)
        /\ \A name \in KeyActions : key_action(adb, name).sent = <<>>

\* The part of C11 that holds: a refused connect never raises, and on a
\* Device that held no session it leaves none.
C11_RefusedWithoutSession ==
    (last.op = "connect" /\ last.arg = "refused") =>
        /\ last.exc = ""
        /\ last.adb0 = None => adb = None /\ state(adb, dev).ret = StrRet(STATE_DISCONNECTED)

C19_WitnessValueError ==
    /\ last.op = "connect"
    /\ last.arg = "value_error"
    /\ last.exc = "ValueError"
    /\ last.adb0 = None

\* The window lines of a focus dump, in the dump's order.
WindowLineSeq(d) == SelectSeq(d.focus, LAMBDA line : line.win)

\* C15: when the focus dump has more than one window line, current_app
\* returns the package and activity of the last of them.
C15_LastMatchingLine ==
    (last.op = "current_app" /\ HasSession(last) /\ Len(WindowLineSeq(last.pre)) > 1) =>
        /\ last.exc = ""
        /\ last.ret = AppRet(WindowLineSeq(last.pre)[Len(WindowLineSeq(last.pre))])

\* What holds in its place: it returns those of the first window line.
C15_FirstMatchingLine ==
    (last.op = "current_app" /\ HasSession(last) /\ Len(WindowLineSeq(last.pre)) > 1) =>
        /\ last.exc = ""
        /\ last.ret = AppRet(WindowLineSeq(last.pre)[1])

\* C16: for a single window line Window{<id> <user> <package>/<activity>}
\* the parse returns the package written before the slash and the activity
\* written after it; for a window line without /<activity> it returns the
\* package as written and no activity.
C16_PackageAndActivity ==
    last.op = "parse" =>
        /\ last.exc = ""
        /\ ~last.ret.none
        /\ last.ret.package = last.arg.package
        /\ last.ret.hasActivity = last.arg.hasActivity
        /\ last.ret.activity = last.arg.activity

C16_Witness ==
    /\ last.op = "parse"
    /\ last.reply = <<"mCurrentFocus=", "Window{", "299091cd", " ", "u0", " ", "com", ".", "/", "Main", "/", "}", CRLF>>
    /\ last.ret.package = <<"com", ".">>
    /\ last.ret.activity = <<"Main", "/">>

C16_WitnessNoActivity ==
    /\ last.op = "parse"
    /\ last.reply = <<"Window{", "299091cd", " ", "u0", " ", "com", "}">>
    /\ last.ret.package = <<"com">>
    /\ ~last.ret.hasActivity

\* an exception that is an I/O failure: IOError itself, or socket.error,
\* which is a subclass of it
IsIOError(exc) == exc \in {"IOError", "socket.error"}

\* C13: when the stream of the process listing raises a checksum error,
\* connect is called exactly once, the listing call raises an I/O failure
\* to its caller whatever that connect did, nothing is returned, and 'ps'
\* is issued once only.
C13_CorruptionFailsWithIOError ==
    (last.op = "running_apps" /\ last.fault = "InvalidChecksumError") =>
        /\ last.tries = 1
        /\ IsIOError(last.exc)
        /\ last.ret = NoRet
        /\ last.sent = <<PsCmd>>

\* The part of C13 that holds: one connect, nothing returned, 'ps' issued
\* once, some exception raised; and IOError when connect did not raise.
C13_CorruptionFails ==
    (last.op = "running_apps" /\ last.fault = "InvalidChecksumError") =>
        /\ last.tries = 1
        /\ last.exc # ""
        /\ last.arg.outcome \in {"ok", "refused", "multi_adb"} => last.exc = "IOError"
        /\ last.ret = NoRet
        /\ last.sent = <<PsCmd>>

\* C14: the result of running_apps is the same however the output of 'ps'
\* is cut into chunks: the last space-delimited field of each line of the
\* whole output that contains the filter, in order.
C14_ChunkingIndependent ==
    (last.op = "running_apps" /\ HasSession(last) /\ last.fault = "") =>
        /\ last.exc = ""
        /\ last.ret = ListRet(Fields(SplitLines(last.reply), "u0_a"))

\* What holds in its place: the same, for chunks that end where a line ends.
C14_WholeLineChunks ==
    (/\ last.op = "running_apps" /\ HasSession(last) /\ last.fault = ""
     /\ \A i \in 1..(Len(last.arg.chunks) - 1) : last.arg.chunks[i][Len(last.arg.chunks[i])] = LF) =>
        /\ last.exc = ""
        /\ last.ret = ListRet(Fields(SplitLines(last.reply), "u0_a"))

\* C17: whenever a key event, an intent command, a dump or the process
\* listing meets a checksum error of the transport, the old session is
\* dropped, connect is called exactly once, and the operation raises.
C17_ReconnectAfterCorruption ==
    last.fault = "InvalidChecksumError" =>
        /\ last.tries = 1
        /\ last.exc # ""
        /\ adb # last.adb0

\* What the code does instead: the process listing calls connect once and
\* raises; the blocking operations raise the checksum error without calling
\* connect and keep the session.
C17_OnlyListingReconnects ==
    last.fault = "InvalidChecksumError" =>
        /\ last.exc # ""
        /\ last.op = "running_apps" => last.tries = 1
        /\ last.op # "running_apps" => last.tries = 0 /\ last.exc = "InvalidChecksumError" /\ adb = last.adb0

\* C18: a session handle on which the process listing met a checksum error
\* is never used again: no later operation issues a shell command on it.
C18_CorruptedHandleUnused ==
    (last.fault = "" /\ last.sent # <<>>) => last.adb0 \notin corrupted

\* The part of C18 that holds: after a reconnect that opened a session.
C18_ReplacedWhenReconnected ==
    (last.op = "running_apps" /\ last.fault # "" /\ last.arg.outcome = "ok") => adb \notin corrupted

\* an identifier of word characters and dashes only
OnlyWordsAndDashes(device_id) ==
    device_id # <<>> /\ \A i \in 1..Len(device_id) : device_id[i] \in WordTokens

\* a host of the form <address>:<digits>
AddressAndDigits(h) ==
    \E i \in 1..Len(h) :
        /\ h[i] = ":"
        /\ \A j \in 1..(i - 1) : h[j] # ":"
        /\ i < Len(h)
        /\ \A j \in (i + 1)..Len(h) : h[j] \in DigitTokens

\* C20: after any calls of add, every identifier in the registry consists
\* of word characters and dashes only and its Device was made from a host
\* of the form <address>:<digits>; an add with another identifier or host
\* returns a false value and leaves the registry as it was; an add that
\* returns true has put a Device of the given host under the identifier.
C20_RegistryValid ==
    /\ \A device_id \in DOMAIN registry :
        OnlyWordsAndDashes(device_id) /\ AddressAndDigits(registry[device_id].host)
    /\ last.op = "add" =>
        /\ (~OnlyWordsAndDashes(last.arg.device_id) \/ ~AddressAndDigits(last.arg.host)) =>
               last.exc = "" /\ last.ret # StrRet("True") /\ registry = last.pre
        /\ last.ret = StrRet("True") =>
               /\ registry[last.arg.device_id] = [host |-> last.arg.host]
               /\ \A x \in (DOMAIN last.pre) \ {last.arg.device_id} : registry[x] = last.pre[x]

\* The same holds of the identifiers that VALID_DEVICE_ID accepts, which
\* are those of word characters and dashes and those followed by one "\n".
C20_RegistryAccepted ==
    /\ \A device_id \in DOMAIN registry :
        is_valid_device_id(device_id) /\ AddressAndDigits(registry[device_id].host)
    /\ last.op = "add" =>
        /\ (~is_valid_device_id(last.arg.device_id) \/ ~AddressAndDigits(last.arg.host)) =>
               last.exc = "" /\ last.ret # StrRet("True") /\ registry = last.pre
        /\ last.ret = StrRet("True") =>
               /\ registry[last.arg.device_id] = [host |-> last.arg.host]
               /\ \A x \in (DOMAIN last.pre) \ {last.arg.device_id} : registry[x] = last.pre[x]

====
